---- MODULE Spec2Model ----
(***************************************************************************)
(* A model of the folder validation engine of konidev20/refcheck:          *)
(* internal/validator (ValidateFile, isValidSha256, ProcessFolder),        *)
(* internal/template (Templates), the exclusion filter built by            *)
(* collectExcludePatterns, and runChecker and main, which run the engine   *)
(* on every root of the command line.                                      *)
(*                                                                         *)
(* Go strings are sequences of runes; a rune is a one-character string     *)
(* (or the name of a non-ASCII rune).  The Report is shared by the worker  *)
(* goroutines without a lock, so every `x++` and every `append` of         *)
(* ValidateFile is a separate load and a separate store.                   *)
(***************************************************************************)
EXTENDS Integers, Sequences, FiniteSets, Bags, TLC

\* ------------------------------------------------------------- bounds
\* The most workers ProcessFolder is started with.
MaxWorkers == 2
\* The most entries below the root in a walked tree.
MaxEntries == 3
\* The most direct calls of ValidateFile in the sequential harness.
MaxCalls == 2
\* The most roots runChecker is given.
MaxRoots == 3

\* ------------------------------------------------------------ strings
\* len(hash) != 64
HashLen == 64

HexDigits ==
  {"0", "1", "2", "3", "4", "5", "6", "7", "8", "9", "a", "b", "c", "d", "e", "f"}

\* Runes that take two bytes in UTF-8; every other rune of the model is ASCII.
TwoByteRunes == {"e_acute"}

RuneLen(c) == IF c \in TwoByteRunes THEN 2 ELSE 1

\* len(s) of Go: the number of bytes, one for each rune of one byte and two
\* for each rune of two.
ByteLen(s) ==
  Cardinality({i \in 1..Len(s) : RuneLen(s[i]) = 1})
    + 2 * Cardinality({i \in 1..Len(s) : RuneLen(s[i]) = 2})

Rep(c, n) == [i \in 1..n |-> c]

\* strings.Join(elems, sep)
Join(elems, sep) ==
  LET joined[n \in 0..Len(elems)] ==
        IF n = 0 THEN <<>>
        ELSE IF n = 1 THEN elems[1]
        ELSE joined[n - 1] \o sep \o elems[n]
  IN joined[Len(elems)]

Separator == "/"

\* The path without its trailing separators.
TrimSeparators(path) ==
  IF path = <<>> \/ path[Len(path)] # Separator THEN path
  ELSE LET keep == {i \in 1..Len(path) : path[i] # Separator}
       IN IF keep = {} THEN <<>>
          ELSE SubSeq(path, 1, CHOOSE i \in keep : \A j \in keep : j <= i)

\* The part of the path after its last separator.
LastElement(path) ==
  LET seps == {i \in 1..Len(path) : path[i] = Separator}
  IN IF seps = {} THEN path
     ELSE SubSeq(path, (CHOOSE i \in seps : \A j \in seps : j <= i) + 1, Len(path))

\* filepath.Base(filePath)
Base(path) ==
  IF path = <<>> THEN <<".">>
  ELSE IF TrimSeparators(path) = <<>> THEN <<Separator>>
  ELSE LastElement(TrimSeparators(path))

\* --------------------------------------------------------- the digest
\* SHA-256 of the empty input and of the single byte "x", hex-encoded.
DigestEmpty ==
  <<"e","3","b","0","c","4","4","2","9","8","f","c","1","c","1","4",
    "9","a","f","b","f","4","c","8","9","9","6","f","b","9","2","4",
    "2","7","a","e","4","1","e","4","6","4","9","b","9","3","4","c",
    "a","4","9","5","9","9","1","b","7","8","5","2","b","8","5","5">>

DigestX ==
  <<"2","d","7","1","1","6","4","2","b","7","2","6","b","0","4","4",
    "0","1","6","2","7","c","a","9","f","b","a","c","3","2","f","5",
    "c","8","5","3","0","f","b","1","9","0","3","c","c","4","d","b",
    "0","2","2","5","8","7","1","7","9","2","1","a","4","8","8","1">>

ContentEmpty == <<>>
ContentX == <<"x">>

\* hex.EncodeToString(hash.Sum(nil)) after io.Copy(hash, file)
Sha256Hex(content) == IF content = ContentEmpty THEN DigestEmpty ELSE DigestX

\* ------------------------------------------------------ isValidSha256
\* regexp `^[a-f0-9]+$`: one or more runes, each of the class.
MatchHexDigits(hash) ==
  Len(hash) >= 1 /\ \A i \in 1..Len(hash) : hash[i] \in HexDigits

\* Faulty variants, to see that the properties notice them: without the
\* length check, and taking an upper-case digit.
isValidSha256_NoLength(hash) == MatchHexDigits(hash)

isValidSha256_AnyCase(hash) ==
  ByteLen(hash) = HashLen /\ \A i \in 1..Len(hash) : hash[i] \in HexDigits \cup {"E"}

isValidSha256(hash) ==
  IF ByteLen(hash) # HashLen THEN FALSE
  ELSE IF ~MatchHexDigits(hash) THEN FALSE
  ELSE TRUE

\* ------------------------------------------------- the exclusion filter
Str_config == <<"c", "o", "n", "f", "i", "g">>
Str_DS_Store == <<".", "D", "S", "_", "S", "t", "o", "r", "e">>

\* The keys of template.Templates.
TemplateKeys == {"restic", "darwin"}

\* A faulty variant: a name that is no key gives a fragment that matches any rune.
Templates_UnknownIsWildcard(t) ==
  IF t = "restic" THEN <<Str_config>>
  ELSE IF t = "darwin" THEN <<Str_DS_Store>>
  ELSE << <<".">> >>

\* template.Templates[t].Exclude: a name that is no key gives the zero Template.
Templates(t) ==
  IF t = "restic" THEN <<Str_config>>
  ELSE IF t = "darwin" THEN <<Str_DS_Store>>
  ELSE <<>>

\* The loop of collectExcludePatterns over opts.Template.
TemplatePatterns(names) ==
  LET appended[n \in 0..Len(names)] ==
        IF n = 0 THEN <<>> ELSE appended[n - 1] \o Templates(names[n])
  IN appended[Len(names)]

\* The pattern text split at its top-level "|" (the fragments hold none):
\* branch n runs from after bar n - 1 to before bar n.
SplitAlternation(pattern) ==
  LET bars == {i \in 1..Len(pattern) : pattern[i] = "|"}
      BarsBefore(i) == Cardinality({j \in bars : j < i})
      Bar(n) == IF n = 0 THEN 0
                ELSE IF n > Cardinality(bars) THEN Len(pattern) + 1
                ELSE CHOOSE i \in bars : BarsBefore(i) = n - 1
  IN [n \in 1..(Cardinality(bars) + 1) |-> SubSeq(pattern, Bar(n - 1) + 1, Bar(n) - 1)]

\* A branch "(" fragment ")" without its group parentheses.
StripGroup(branch) == SubSeq(branch, 2, Len(branch) - 1)

\* regexp.MustCompile: the branches of the alternation, each a sequence of atoms.
MustCompile(pattern) ==
  LET branches == SplitAlternation(pattern)
  IN [i \in 1..Len(branches) |-> StripGroup(branches[i])]

collectExcludePatterns(o) ==
  LET excludePatterns == o.Exclude \o TemplatePatterns(o.Template)
      combinedPattern == <<"(">> \o Join(excludePatterns, <<")", "|", "(">>) \o <<")">>
  IN MustCompile(combinedPattern)

\* An atom of a fragment against a rune: "." is any rune, the rest are literals.
AtomMatches(atom, c) == atom = "." \/ atom = c

\* The branch matches s at the runes after position `at`.
BranchMatchesAt(branch, s, at) ==
  /\ at + Len(branch) <= Len(s)
  /\ \A k \in 1..Len(branch) : AtomMatches(branch[k], s[at + k])

\* A faulty variant: the match is tried on the base name only.
MatchString_BaseOnly(re, s) ==
  \E b \in 1..Len(re) : \E at \in 0..Len(Base(s)) : BranchMatchesAt(re[b], Base(s), at)

\* (*Regexp).MatchString: unanchored, some branch matches some substring of s.
MatchString(re, s) ==
  \E b \in 1..Len(re) : \E at \in 0..Len(s) : BranchMatchesAt(re[b], s, at)

\* ------------------------------------------------------ the file system
\* An entry of the tree as filepath.Walk meets it: its path, what Lstat says
\* it is, whether the walk reports an error at it, whether os.Open or the
\* read of io.Copy fails on it, and its bytes.
Entry(p, kind, werr, oerr, rerr, content) ==
  [path |-> p, kind |-> kind, walkErr |-> werr,
   openErr |-> oerr, readErr |-> rerr, content |-> content]

File(path, content) == Entry(path, "file", FALSE, FALSE, FALSE, content)

Root == <<"r">>
Under(dir, name) == dir \o <<Separator>> \o name

Str_d == <<"d">>
Str_2x7 == <<"/", "2", ".", "7">>
Str_linux == "linux"

\* The entries a walked tree is drawn from, in the lexical order of the walk.
\* A symbolic link to a directory opens, and its read fails.
Catalog ==
  << File(Under(Root, DigestX), ContentEmpty),
     File(Under(Root, Str_config), ContentX),
     Entry(Under(Root, Str_d), "dir", TRUE, FALSE, FALSE, ContentEmpty),
     File(Under(Root, DigestEmpty), ContentEmpty),
     Entry(Under(Root, Rep("e", HashLen)), "file", FALSE, TRUE, FALSE, ContentEmpty),
     Entry(Under(Root, Rep("f", HashLen)), "symlink", FALSE, FALSE, TRUE, ContentEmpty) >>

RootEntry(werr) == Entry(Root, "dir", werr, FALSE, FALSE, ContentEmpty)

\* The entries of Catalog at the indices of S, in order.
RECURSIVE Pick(_, _)
Pick(S, from) ==
  IF from > Len(Catalog) THEN <<>>
  ELSE (IF from \in S THEN <<Catalog[from]>> ELSE <<>>) \o Pick(S, from + 1)

\* The trees: a root that cannot be walked, or a root and some entries below it.
Trees ==
  {<<RootEntry(TRUE)>>} \cup
  { <<RootEntry(FALSE)>> \o Pick(S, 1) :
      S \in {T \in SUBSET (1..Len(Catalog)) : Cardinality(T) <= MaxEntries} }

\* The command-line options that build the filter: nothing at all, only a
\* template name that is no key, the defaults of the flags on Linux, an
\* explicit pattern beside a template, and a pattern that is the root's name.
OptsChoices ==
  { [Exclude |-> <<>>, Template |-> <<>>],
    [Exclude |-> <<>>, Template |-> <<Str_linux>>],
    [Exclude |-> <<>>, Template |-> <<"restic", Str_linux>>],
    [Exclude |-> <<Str_2x7>>, Template |-> <<"darwin">>],
    [Exclude |-> <<Root>>, Template |-> <<>>] }

\* ------------------------------------------------------------- the state
VARIABLES
  fs,          \* the entries of the file system, in walk order
  opts,        \* the options the filter was built from
  exclude,     \* the compiled filter handed to ProcessFolder
  numWorkers,  \* the worker count handed to ProcessFolder
  pcMain,      \* where the goroutine that called ProcessFolder is
  walkIdx,     \* the entry filepath.Walk is at
  walkErr,     \* err of ProcessFolder: <<>> is nil, <<i>> the error at entry i
  closed,      \* fileChan is closed
  wg,          \* the counter of the WaitGroup
  result,      \* the Result the workers share
  ret,         \* what ProcessFolder returned
  pc,          \* where each worker is
  cur,         \* filePath of each worker
  tmpN,        \* the counter value a worker has loaded and not yet stored
  tmpL,        \* the slice a worker has loaded and not yet stored
  vfCalls,     \* history: the paths ValidateFile was entered with, a bag
  opened,      \* history: the paths os.Open was called on, a bag
  skipped,     \* history: the paths a worker received and found excluded, a bag
  entry,       \* harness: the Result as it was when ValidateFile was entered
  nCalls,      \* harness: the calls made so far
  folderPaths, \* runChecker: the roots, in the order they were given
  pathsErr,    \* runChecker: getFolderPaths fails
  idx,         \* runChecker: the index of the loop over folderPaths (from 1)
  results,     \* runChecker: the slice of Reports, <<>> where it holds nil
  runErr,      \* what runChecker returned: <<>> is nil
  printed,     \* what ui.PrintResult was called with: <<>> before the call
  exitCode,    \* the exit status of the process: <<>> while it runs
  pcRun,       \* where the goroutine of main is
  pfCalls      \* history: the roots ProcessFolder was called with, in order

vars ==
  <<fs, opts, exclude, numWorkers, pcMain, walkIdx, walkErr, closed, wg, result,
    ret, pc, cur, tmpN, tmpL, vfCalls, opened, skipped, entry, nCalls,
    folderPaths, pathsErr, idx, results, runErr, printed, exitCode, pcRun, pfCalls>>

\* The state of runChecker and main.
rcVars ==
  <<folderPaths, pathsErr, idx, results, runErr, printed, exitCode, pcRun, pfCalls>>

\* ProcessFolder is called on folderPath by a caller that is not runChecker.
NotRunning(folderPath) ==
  /\ folderPaths = <<folderPath>>
  /\ pathsErr = FALSE
  /\ idx = 1
  /\ results = <<>>
  /\ runErr = <<>>
  /\ printed = <<>>
  /\ exitCode = <<>>
  /\ pcRun = "idle"
  /\ pfCalls = <<folderPath>>

Workers == 1..MaxWorkers

\* result := &Result{FolderPath: folderPath}
NewResult(folderPath) ==
  [FolderPath |-> folderPath, TotalFiles |-> 0, IntactFiles |-> 0,
   CorruptedFiles |-> 0, CorruptedFileList |-> <<>>,
   InvalidFiles |-> 0, InvalidFileList |-> <<>>]

CorruptedFile(filePath, actualHash) == [FilePath |-> filePath, ActualHash |-> actualHash]

NoReturn == [Result |-> <<>>, Err |-> <<>>]

\* The entries of the file system at a path (none when nothing is there).
Lookup(path) == {i \in 1..Len(fs) : fs[i].path = path}

\* os.Open(filePath) fails: nothing is there, or the entry cannot be opened.
OpenFails(path) == Lookup(path) = {} \/ \E i \in Lookup(path) : fs[i].openErr

\* io.Copy(hash, file) fails.
ReadFails(path) == \E i \in Lookup(path) : fs[i].readErr

\* The bytes io.Copy reads.
ReadAll(path) == fs[CHOOSE i \in Lookup(path) : TRUE].content

ActualHash(path) == Sha256Hex(ReadAll(path))

\* ------------------------------------------------------- ValidateFile
\* What ValidateFile does with filePath after result.TotalFiles++, from the
\* name check to the comparison of the digests: the next place of the worker,
\* as a function of expectedHash := filepath.Base(filePath).
\* Faulty variants below: without the name check, and counting a file that
\* cannot be read as corrupted.
Classify_NoNameCheck(filePath, retpc) ==
  IF OpenFails(filePath) \/ ReadFails(filePath) THEN retpc
  ELSE IF Base(filePath) = ActualHash(filePath) THEN "intact_load"
  ELSE "corrupted_load"

Classify_ErrorIsCorrupted(filePath, retpc) ==
  IF ~isValidSha256(Base(filePath)) THEN "invalid_load"
  ELSE IF OpenFails(filePath) \/ ReadFails(filePath) THEN "corrupted_load"
  ELSE IF Base(filePath) = ActualHash(filePath) THEN "intact_load"
  ELSE "corrupted_load"

Classify(filePath, retpc) ==
  LET next[expectedHash \in {Base(filePath)}] ==
        IF ~isValidSha256(expectedHash) THEN "invalid_load"
        ELSE IF OpenFails(filePath) THEN retpc
        ELSE IF ReadFails(filePath) THEN retpc
        ELSE IF expectedHash = ActualHash(filePath) THEN "intact_load"
        ELSE "corrupted_load"
  IN next[Base(filePath)]

\* The hash ValidateFile reports for a corrupted file.
\* (A faulty variant reports the name instead.)
ReportedHash_Expected(filePath) == Base(filePath)

ReportedHash(filePath) == ActualHash(filePath)

\* Entering ValidateFile(filePath, result) in worker w.
Enter(w, filePath) ==
  /\ pc' = [pc EXCEPT ![w] = "total_load"]
  /\ cur' = [cur EXCEPT ![w] = filePath]
  /\ vfCalls' = vfCalls (+) SetToBag({filePath})

\* result.TotalFiles++, the load.
LoadTotal(w) ==
  /\ pc[w] = "total_load"
  /\ tmpN' = [tmpN EXCEPT ![w] = result.TotalFiles]
  /\ pc' = [pc EXCEPT ![w] = "total_store"]
  /\ UNCHANGED <<result, tmpL, opened>>

\* result.TotalFiles++, the store; then the name check, os.Open, io.Copy and
\* the comparison, which read nothing the other workers write.
StoreTotal(w, retpc) ==
  /\ pc[w] = "total_store"
  /\ result' = [result EXCEPT !.TotalFiles = tmpN[w] + 1]
  /\ tmpN' = [tmpN EXCEPT ![w] = 0]
  /\ \E next \in {Classify(cur[w], retpc)} :
       /\ pc' = [pc EXCEPT ![w] = next]
       /\ opened' = IF next = "invalid_load" THEN opened
                     ELSE opened (+) SetToBag({cur[w]})
  /\ UNCHANGED tmpL

\* result.InvalidFiles++
LoadInvalid(w) ==
  /\ pc[w] = "invalid_load"
  /\ tmpN' = [tmpN EXCEPT ![w] = result.InvalidFiles]
  /\ pc' = [pc EXCEPT ![w] = "invalid_store"]
  /\ UNCHANGED <<result, tmpL, opened>>

StoreInvalid(w) ==
  /\ pc[w] = "invalid_store"
  /\ result' = [result EXCEPT !.InvalidFiles = tmpN[w] + 1]
  /\ tmpN' = [tmpN EXCEPT ![w] = 0]
  /\ pc' = [pc EXCEPT ![w] = "invalid_list_load"]
  /\ UNCHANGED <<tmpL, opened>>

\* result.InvalidFileList = append(result.InvalidFileList, filePath)
\* The append is in place: the worker loads the slice, stores its length (and,
\* when it grows, its array) and then writes element k, a string of two
\* words.  A worker that loaded the slice before another stored its own
\* element k and stores after it has either an array of its own, or the same
\* array as the other: then the two elements race into one slot, which is
\* left with the pointer of one string and the length of the other.  (The
\* paths of the trees are ASCII; a length beyond the end of the string it is
\* put on is left out, there being no saying what bytes follow.)
TornStrings(mine, slice, k) ==
  IF Len(slice) # k THEN {mine}
  ELSE LET theirs == slice[k]
       IN {mine}
          \cup (IF Len(theirs) <= Len(mine) THEN {SubSeq(mine, 1, Len(theirs))} ELSE {})
          \cup (IF Len(mine) <= Len(theirs) THEN {SubSeq(theirs, 1, Len(mine))} ELSE {})

LoadInvalidList(w) ==
  /\ pc[w] = "invalid_list_load"
  /\ tmpL' = [tmpL EXCEPT ![w] = result.InvalidFileList]
  /\ pc' = [pc EXCEPT ![w] = "invalid_list_store"]
  /\ UNCHANGED <<result, tmpN, opened>>

\* (A faulty variant puts the new path before the others.)
StoreInvalidList_Prepend(w, retpc) ==
  /\ pc[w] = "invalid_list_store"
  /\ result' = [result EXCEPT !.InvalidFileList = <<cur[w]>> \o tmpL[w]]
  /\ tmpL' = [tmpL EXCEPT ![w] = <<>>]
  /\ pc' = [pc EXCEPT ![w] = retpc]
  /\ UNCHANGED <<tmpN, opened>>

StoreInvalidList(w, retpc) ==
  /\ pc[w] = "invalid_list_store"
  /\ \E elem \in TornStrings(cur[w], result.InvalidFileList, Len(tmpL[w]) + 1) :
       result' = [result EXCEPT !.InvalidFileList = Append(tmpL[w], elem)]
  /\ tmpL' = [tmpL EXCEPT ![w] = <<>>]
  /\ pc' = [pc EXCEPT ![w] = retpc]
  /\ UNCHANGED <<tmpN, opened>>

\* result.IntactFiles++
LoadIntact(w) ==
  /\ pc[w] = "intact_load"
  /\ tmpN' = [tmpN EXCEPT ![w] = result.IntactFiles]
  /\ pc' = [pc EXCEPT ![w] = "intact_store"]
  /\ UNCHANGED <<result, tmpL, opened>>

StoreIntact(w, retpc) ==
  /\ pc[w] = "intact_store"
  /\ result' = [result EXCEPT !.IntactFiles = tmpN[w] + 1]
  /\ tmpN' = [tmpN EXCEPT ![w] = 0]
  /\ pc' = [pc EXCEPT ![w] = retpc]
  /\ UNCHANGED <<tmpL, opened>>

\* result.CorruptedFiles++
LoadCorrupted(w) ==
  /\ pc[w] = "corrupted_load"
  /\ tmpN' = [tmpN EXCEPT ![w] = result.CorruptedFiles]
  /\ pc' = [pc EXCEPT ![w] = "corrupted_store"]
  /\ UNCHANGED <<result, tmpL, opened>>

StoreCorrupted(w) ==
  /\ pc[w] = "corrupted_store"
  /\ result' = [result EXCEPT !.CorruptedFiles = tmpN[w] + 1]
  /\ tmpN' = [tmpN EXCEPT ![w] = 0]
  /\ pc' = [pc EXCEPT ![w] = "corrupted_list_load"]
  /\ UNCHANGED <<tmpL, opened>>

\* result.CorruptedFileList = append(result.CorruptedFileList, CorruptedFile{...})
\* The same in-place append, of an element of two strings: two elements that
\* race into one slot leave it with the FilePath of one and the ActualHash of
\* the other.
TornEntries(mine, slice, k) ==
  IF Len(slice) # k THEN {mine}
  ELSE LET theirs == slice[k]
       IN { mine,
            CorruptedFile(mine.FilePath, theirs.ActualHash),
            CorruptedFile(theirs.FilePath, mine.ActualHash) }

LoadCorruptedList(w) ==
  /\ pc[w] = "corrupted_list_load"
  /\ tmpL' = [tmpL EXCEPT ![w] = result.CorruptedFileList]
  /\ pc' = [pc EXCEPT ![w] = "corrupted_list_store"]
  /\ UNCHANGED <<result, tmpN, opened>>

\* (A faulty variant puts the new entry before the others.)
StoreCorruptedList_Prepend(w, retpc) ==
  /\ pc[w] = "corrupted_list_store"
  /\ result' = [result EXCEPT !.CorruptedFileList =
                  <<CorruptedFile(cur[w], ReportedHash(cur[w]))>> \o tmpL[w]]
  /\ tmpL' = [tmpL EXCEPT ![w] = <<>>]
  /\ pc' = [pc EXCEPT ![w] = retpc]
  /\ UNCHANGED <<tmpN, opened>>

StoreCorruptedList(w, retpc) ==
  /\ pc[w] = "corrupted_list_store"
  /\ \E elem \in TornEntries(CorruptedFile(cur[w], ReportedHash(cur[w])),
                             result.CorruptedFileList, Len(tmpL[w]) + 1) :
       result' = [result EXCEPT !.CorruptedFileList = Append(tmpL[w], elem)]
  /\ tmpL' = [tmpL EXCEPT ![w] = <<>>]
  /\ pc' = [pc EXCEPT ![w] = retpc]
  /\ UNCHANGED <<tmpN, opened>>

\* One step of ValidateFile in worker w, which goes to retpc when it returns.
ValidateFile(w, retpc) ==
  \/ LoadTotal(w)
  \/ StoreTotal(w, retpc)
  \/ LoadInvalid(w)
  \/ StoreInvalid(w)
  \/ LoadInvalidList(w)
  \/ StoreInvalidList(w, retpc)
  \/ LoadIntact(w)
  \/ StoreIntact(w, retpc)
  \/ LoadCorrupted(w)
  \/ StoreCorrupted(w)
  \/ LoadCorruptedList(w)
  \/ StoreCorruptedList(w, retpc)

\* ------------------------------------------------------ ProcessFolder
\* What the walk function does at an entry: return the error of the walk,
\* send the path of a non-directory on fileChan, or go on.
\* Faulty variants: the error is dropped; directories are sent too.
WalkFn_IgnoreError(e) == IF e.kind # "dir" THEN "send" ELSE "continue"

WalkFn_SendAll(e) == IF e.walkErr THEN "error" ELSE "send"

WalkFn(e) ==
  IF e.walkErr THEN "error"
  ELSE IF e.kind # "dir" THEN "send"
  ELSE "continue"

\* The return statements of ProcessFolder.
\* (A faulty variant hands the Report back beside the error.)
Return_Partial(res, err) == [Result |-> <<res>>, Err |-> err]

Return(res, err) ==
  IF err # <<>> THEN [Result |-> <<>>, Err |-> err]
  ELSE [Result |-> <<res>>, Err |-> <<>>]

\* Whether a worker hands the path it received to ValidateFile.
\* (A faulty variant never asks the filter.)
Validates_All(re, filePath) == TRUE

Validates(re, filePath) == ~MatchString(re, filePath)

\* The state after result, wg and fileChan are made.
Init ==
  /\ fs \in Trees
  /\ opts \in OptsChoices
  /\ exclude = collectExcludePatterns(opts)
  /\ numWorkers \in (-1)..MaxWorkers
  /\ pcMain = "spawn"
  /\ walkIdx = 1
  /\ walkErr = <<>>
  /\ closed = FALSE
  /\ wg = 0
  /\ result = NewResult(fs[1].path)
  /\ ret = NoReturn
  /\ pc = [w \in Workers |-> "idle"]
  /\ cur = [w \in Workers |-> <<>>]
  /\ tmpN = [w \in Workers |-> 0]
  /\ tmpL = [w \in Workers |-> <<>>]
  /\ vfCalls = EmptyBag
  /\ opened = EmptyBag
  /\ skipped = EmptyBag
  /\ entry = result
  /\ nCalls = 0
  /\ NotRunning(fs[1].path)

\* for i := 0; i < numWorkers; i++ { wg.Add(1); go func() {...}() }
Spawn ==
  /\ pcMain = "spawn"
  /\ pc' = [w \in Workers |-> IF w <= numWorkers THEN "range" ELSE "idle"]
  /\ wg' = Cardinality({w \in Workers : w <= numWorkers})
  /\ pcMain' = "walk"
  /\ UNCHANGED <<fs, opts, exclude, numWorkers, walkIdx, walkErr, closed, result,
                 ret, cur, tmpN, tmpL, vfCalls, opened, skipped, entry, nCalls, rcVars>>

\* The walk function returns err: filepath.Walk stops and returns it.
\* (A faulty variant returns the error to the caller there and then.)
WalkError_ReturnsAtOnce ==
  /\ pcMain = "walk"
  /\ walkIdx <= Len(fs)
  /\ WalkFn(fs[walkIdx]) = "error"
  /\ walkErr' = <<walkIdx>>
  /\ ret' = Return(result, <<walkIdx>>)
  /\ pcMain' = "returned"
  /\ UNCHANGED <<fs, opts, exclude, numWorkers, walkIdx, closed, wg, result,
                 pc, cur, tmpN, tmpL, vfCalls, opened, skipped, entry, nCalls, rcVars>>

WalkError ==
  /\ pcMain = "walk"
  /\ walkIdx <= Len(fs)
  /\ WalkFn(fs[walkIdx]) = "error"
  /\ walkErr' = <<walkIdx>>
  /\ pcMain' = "close"
  /\ UNCHANGED <<fs, opts, exclude, numWorkers, walkIdx, closed, wg, result, ret,
                 pc, cur, tmpN, tmpL, vfCalls, opened, skipped, entry, nCalls, rcVars>>

\* The walk function reaches fileChan <- path and blocks there.
WalkSend ==
  /\ pcMain = "walk"
  /\ walkIdx <= Len(fs)
  /\ WalkFn(fs[walkIdx]) = "send"
  /\ pcMain' = "send"
  /\ UNCHANGED <<fs, opts, exclude, numWorkers, walkIdx, walkErr, closed, wg, result,
                 ret, pc, cur, tmpN, tmpL, vfCalls, opened, skipped, entry, nCalls, rcVars>>

\* The walk function returns nil at a directory.
WalkContinue ==
  /\ pcMain = "walk"
  /\ walkIdx <= Len(fs)
  /\ WalkFn(fs[walkIdx]) = "continue"
  /\ walkIdx' = walkIdx + 1
  /\ UNCHANGED <<fs, opts, exclude, numWorkers, pcMain, walkErr, closed, wg, result,
                 ret, pc, cur, tmpN, tmpL, vfCalls, opened, skipped, entry, nCalls, rcVars>>

\* filepath.Walk has met every entry and returns nil.
WalkDone ==
  /\ pcMain = "walk"
  /\ walkIdx > Len(fs)
  /\ pcMain' = "close"
  /\ UNCHANGED <<fs, opts, exclude, numWorkers, walkIdx, walkErr, closed, wg, result,
                 ret, pc, cur, tmpN, tmpL, vfCalls, opened, skipped, entry, nCalls, rcVars>>

\* Worker w receives the path the walk function is sending (fileChan has no
\* buffer), tests it against the filter and enters ValidateFile or ranges on.
\* (A faulty variant leaves the path on offer to the next receiver.)
Receive_NoAdvance(w) ==
  /\ pcMain = "send"
  /\ pc[w] = "range"
  /\ ~closed
  /\ LET filePath == fs[walkIdx].path
     IN IF Validates(exclude, filePath)
        THEN Enter(w, filePath) /\ UNCHANGED skipped
        ELSE /\ skipped' = skipped (+) SetToBag({filePath})
             /\ UNCHANGED <<pc, cur, vfCalls>>
  /\ UNCHANGED <<fs, opts, exclude, numWorkers, pcMain, walkIdx, walkErr, closed, wg,
                 result, ret, tmpN, tmpL, opened, entry, nCalls, rcVars>>

Receive(w) ==
  /\ pcMain = "send"
  /\ pc[w] = "range"
  /\ ~closed
  /\ LET filePath == fs[walkIdx].path
     IN IF Validates(exclude, filePath)
        THEN Enter(w, filePath) /\ UNCHANGED skipped
        ELSE /\ skipped' = skipped (+) SetToBag({filePath})
             /\ UNCHANGED <<pc, cur, vfCalls>>
  /\ pcMain' = "walk"
  /\ walkIdx' = walkIdx + 1
  /\ UNCHANGED <<fs, opts, exclude, numWorkers, walkErr, closed, wg, result, ret,
                 tmpN, tmpL, opened, entry, nCalls, rcVars>>

\* A worker inside ValidateFile, which returns to the range loop: there the
\* iteration is over and its filePath is gone.
Validate(w) ==
  /\ w <= numWorkers
  /\ ValidateFile(w, "range")
  /\ cur' = IF pc'[w] = "range" THEN [cur EXCEPT ![w] = <<>>] ELSE cur
  /\ UNCHANGED <<fs, opts, exclude, numWorkers, pcMain, walkIdx, walkErr, closed, wg,
                 ret, vfCalls, skipped, entry, nCalls, rcVars>>

\* close(fileChan)
\* Faulty variants: the channel is closed while the walk is still going, the
\* channel is closed only when the walk met no error, and the channel is
\* never closed.
Close_Early ==
  /\ pcMain \in {"walk", "close"}
  /\ closed' = TRUE
  /\ pcMain' = "wait"
  /\ UNCHANGED <<fs, opts, exclude, numWorkers, walkIdx, walkErr, wg, result, ret,
                 pc, cur, tmpN, tmpL, vfCalls, opened, skipped, entry, nCalls, rcVars>>

Close_OnSuccessOnly ==
  /\ pcMain = "close"
  /\ closed' = (walkErr = <<>>)
  /\ pcMain' = "wait"
  /\ UNCHANGED <<fs, opts, exclude, numWorkers, walkIdx, walkErr, wg, result, ret,
                 pc, cur, tmpN, tmpL, vfCalls, opened, skipped, entry, nCalls, rcVars>>

Close_Forgotten ==
  /\ pcMain = "close"
  /\ pcMain' = "wait"
  /\ UNCHANGED <<fs, opts, exclude, numWorkers, walkIdx, walkErr, closed, wg, result,
                 ret, pc, cur, tmpN, tmpL, vfCalls, opened, skipped, entry, nCalls,
                 rcVars>>

Close ==
  /\ pcMain = "close"
  /\ closed' = TRUE
  /\ pcMain' = "wait"
  /\ UNCHANGED <<fs, opts, exclude, numWorkers, walkIdx, walkErr, wg, result, ret,
                 pc, cur, tmpN, tmpL, vfCalls, opened, skipped, entry, nCalls, rcVars>>

\* The range over the closed fileChan ends; defer wg.Done().
WorkerExit(w) ==
  /\ pc[w] = "range"
  /\ closed
  /\ pc' = [pc EXCEPT ![w] = "done"]
  /\ wg' = wg - 1
  /\ UNCHANGED <<fs, opts, exclude, numWorkers, pcMain, walkIdx, walkErr, closed,
                 result, ret, cur, tmpN, tmpL, vfCalls, opened, skipped, entry, nCalls, rcVars>>

\* wg.Wait() is over; ProcessFolder returns.
\* (A faulty variant returns without the wait.)
WaitReturn_NoWait ==
  /\ pcMain = "wait"
  /\ ret' = Return(result, walkErr)
  /\ pcMain' = "returned"
  /\ UNCHANGED <<fs, opts, exclude, numWorkers, walkIdx, walkErr, closed, wg, result,
                 pc, cur, tmpN, tmpL, vfCalls, opened, skipped, entry, nCalls, rcVars>>

WaitReturn ==
  /\ pcMain = "wait"
  /\ wg = 0
  /\ ret' = Return(result, walkErr)
  /\ pcMain' = "returned"
  /\ UNCHANGED <<fs, opts, exclude, numWorkers, walkIdx, walkErr, closed, wg, result,
                 pc, cur, tmpN, tmpL, vfCalls, opened, skipped, entry, nCalls, rcVars>>

Next ==
  \/ Spawn
  \/ WalkError
  \/ WalkSend
  \/ WalkContinue
  \/ WalkDone
  \/ \E w \in Workers : Receive(w)
  \/ \E w \in Workers : Validate(w)
  \/ Close
  \/ \E w \in Workers : WorkerExit(w)
  \/ WaitReturn

Spec == Init /\ [][Next]_vars

\* The Go scheduler runs a goroutine that can run: while the caller or a
\* worker can take a step, a step is taken.
SpecFair == Spec /\ WF_vars(Next)

\* ------------------------------------- ValidateFile called directly
\* The calls of the tests of the repository: one goroutine calls
\* ValidateFile(filePath, result) on a Result of its own, call after call.
TestDir == <<"t">>
OtherDir == <<"u">>
Str_invalidfilename ==
  <<"i", "n", "v", "a", "l", "i", "d", "f", "i", "l", "e", "n", "a", "m", "e">>
Str_not_a_hash == <<"n", "o", "t", "-", "a", "-", "h", "a", "s", "h">>

\* Names that are no digest: too short, too long, an upper-case digit, a
\* letter after f, 64 bytes in 63 runes, 64 runes in 65 bytes.
BadNames ==
  { Str_not_a_hash,
    Rep("a", HashLen - 1),
    Rep("a", HashLen + 1),
    <<"E">> \o Rep("0", HashLen - 1),
    Rep("0", HashLen - 1) \o <<"g">>,
    Rep("a", HashLen - 2) \o <<"e_acute">>,
    Rep("a", HashLen - 1) \o <<"e_acute">> }

TestFiles ==
  << File(Under(TestDir, DigestEmpty), ContentEmpty),
     File(Under(OtherDir, DigestEmpty), ContentX),
     File(Under(TestDir, DigestX), ContentX),
     Entry(Under(TestDir, Rep("e", HashLen)), "file", FALSE, TRUE, FALSE, ContentEmpty),
     Entry(Under(TestDir, Rep("f", HashLen)), "file", FALSE, FALSE, TRUE, ContentX),
     File(Under(TestDir, Str_not_a_hash), ContentEmpty),
     Entry(Under(TestDir, Rep("a", HashLen - 1)), "file", FALSE, TRUE, FALSE, ContentX),
     File(Under(TestDir, <<"E">> \o Rep("0", HashLen - 1)), ContentX) >>

\* The paths ValidateFile is called with: the files above, and paths where
\* nothing is.
TestPaths ==
  {TestFiles[i].path : i \in 1..Len(TestFiles)}
    \cup {Under(TestDir, n) : n \in BadNames}
    \cup {Str_invalidfilename, Under(TestDir, Rep("b", HashLen)), <<>>}

Caller == 1

InitVF ==
  /\ fs = TestFiles
  /\ opts = [Exclude |-> <<>>, Template |-> <<>>]
  /\ exclude = collectExcludePatterns(opts)
  /\ numWorkers = 0
  /\ pcMain = "test"
  /\ walkIdx = 1
  /\ walkErr = <<>>
  /\ closed = FALSE
  /\ wg = 0
  /\ result = NewResult(<<>>)
  /\ ret = NoReturn
  /\ pc = [w \in Workers |-> "idle"]
  /\ cur = [w \in Workers |-> <<>>]
  /\ tmpN = [w \in Workers |-> 0]
  /\ tmpL = [w \in Workers |-> <<>>]
  /\ vfCalls = EmptyBag
  /\ opened = EmptyBag
  /\ skipped = EmptyBag
  /\ entry = result
  /\ nCalls = 0
  /\ NotRunning(<<>>)

\* processFile(path, result) / ValidateFile(path, result) is called.
Call(filePath) ==
  /\ pc[Caller] = "idle"
  /\ nCalls < MaxCalls
  /\ Enter(Caller, filePath)
  /\ entry' = result
  /\ nCalls' = nCalls + 1
  /\ UNCHANGED <<fs, opts, exclude, numWorkers, pcMain, walkIdx, walkErr, closed, wg,
                 result, ret, tmpN, tmpL, opened, skipped, rcVars>>

\* The call runs on, and returns to the caller.
Run ==
  /\ ValidateFile(Caller, "idle")
  /\ UNCHANGED <<fs, opts, exclude, numWorkers, pcMain, walkIdx, walkErr, closed, wg,
                 ret, cur, vfCalls, skipped, entry, nCalls, rcVars>>

NextVF ==
  \/ \E filePath \in TestPaths : Call(filePath)
  \/ Run

SpecVF == InitVF /\ [][NextVF]_vars

\* ------------------------------------------------- runChecker and main
\* The roots of the command line: one that holds two corrupted files, one
\* where the walk fails at a directory after a file was met, one that is not
\* there (filepath.Walk hands the error of Lstat to the walk function), and
\* one that holds a single file.
GoodRoot == <<"g">>
BrokenRoot == <<"k">>
MissingRoot == <<"m">>
OtherRoot == <<"o">>

RootChoices == {GoodRoot, BrokenRoot, MissingRoot, OtherRoot}

\* The entries filepath.Walk meets from folderPath, in the order of the walk.
TreeOf(folderPath) ==
  IF folderPath = GoodRoot
  THEN << Entry(GoodRoot, "dir", FALSE, FALSE, FALSE, ContentEmpty),
          File(Under(GoodRoot, DigestX), ContentEmpty),
          File(Under(GoodRoot, DigestEmpty), ContentX) >>
  ELSE IF folderPath = BrokenRoot
  THEN << Entry(BrokenRoot, "dir", FALSE, FALSE, FALSE, ContentEmpty),
          File(Under(BrokenRoot, Rep("a", HashLen)), ContentX),
          Entry(Under(BrokenRoot, Str_d), "dir", TRUE, FALSE, FALSE, ContentEmpty) >>
  ELSE IF folderPath = OtherRoot
  THEN << Entry(OtherRoot, "dir", FALSE, FALSE, FALSE, ContentEmpty),
          File(Under(OtherRoot, Str_not_a_hash), ContentX) >>
  ELSE << Entry(folderPath, "dir", TRUE, FALSE, FALSE, ContentEmpty) >>

\* The lists of at most n roots, no root given twice.
RECURSIVE RootLists(_)
RootLists(n) ==
  IF n = 0 THEN {<<>>}
  ELSE LET shorter == RootLists(n - 1)
           longest == {l \in shorter : Len(l) = n - 1}
       IN shorter \cup
          UNION { {Append(l, r) : r \in RootChoices \ {l[i] : i \in 1..Len(l)}} :
                  l \in longest }

\* The error of getFolderPaths.
PathsFileError == <<0>>

\* What the loop of runChecker does with what ProcessFolder returned.
\* (A faulty variant goes on to the next root after an error.)
AfterProcessFolder_GoOn(err) == "store"

AfterProcessFolder(err) == IF err # <<>> THEN "return" ELSE "store"

\* results[idx] = result
\* (A faulty variant fills the slice from its end.)
StoreResult_Reversed(slice, i, res) == [slice EXCEPT ![Len(slice) + 1 - i] = res]

StoreResult(slice, i, res) == [slice EXCEPT ![i] = res]

\* The exit status: main drops what rootCmd.Execute() returns and returns.
ExitStatus(err) == 0

\* The state when the command of main runs runChecker.
InitRC ==
  /\ folderPaths \in RootLists(MaxRoots)
  /\ pathsErr \in BOOLEAN
  /\ opts \in OptsChoices
  /\ numWorkers \in 0..MaxWorkers
  /\ fs = <<>>
  /\ exclude = <<>>
  /\ pcMain = "none"
  /\ walkIdx = 1
  /\ walkErr = <<>>
  /\ closed = FALSE
  /\ wg = 0
  /\ result = NewResult(<<>>)
  /\ ret = NoReturn
  /\ pc = [w \in Workers |-> "idle"]
  /\ cur = [w \in Workers |-> <<>>]
  /\ tmpN = [w \in Workers |-> 0]
  /\ tmpL = [w \in Workers |-> <<>>]
  /\ vfCalls = EmptyBag
  /\ opened = EmptyBag
  /\ skipped = EmptyBag
  /\ entry = result
  /\ nCalls = 0
  /\ idx = 1
  /\ results = <<>>
  /\ runErr = <<>>
  /\ printed = <<>>
  /\ exitCode = <<>>
  /\ pcRun = "start"
  /\ pfCalls = <<>>

\* getFolderPaths fails: runChecker returns its error.
GetFolderPathsError ==
  /\ pcRun = "start"
  /\ pathsErr
  /\ runErr' = PathsFileError
  /\ pcRun' = "returned"
  /\ UNCHANGED <<fs, opts, exclude, numWorkers, pcMain, walkIdx, walkErr, closed, wg,
                 result, ret, pc, cur, tmpN, tmpL, vfCalls, opened, skipped, entry,
                 nCalls, folderPaths, pathsErr, idx, results, printed, exitCode, pfCalls>>

\* folderPaths, exclude and results are made.
Prepare ==
  /\ pcRun = "start"
  /\ ~pathsErr
  /\ exclude' = collectExcludePatterns(opts)
  /\ results' = [i \in 1..Len(folderPaths) |-> <<>>]
  /\ idx' = 1
  /\ pcRun' = "loop"
  /\ UNCHANGED <<fs, opts, numWorkers, pcMain, walkIdx, walkErr, closed, wg,
                 result, ret, pc, cur, tmpN, tmpL, vfCalls, opened, skipped, entry,
                 nCalls, folderPaths, pathsErr, runErr, printed, exitCode, pfCalls>>

\* validator.ProcessFolder(folderPath, exclude, numWorkers) is called: it
\* makes its result, wg and fileChan.  The goroutines of an earlier call are
\* not touched.
CallProcessFolder ==
  /\ pcRun = "loop"
  /\ idx <= Len(folderPaths)
  /\ fs' = TreeOf(folderPaths[idx])
  /\ result' = NewResult(folderPaths[idx])
  /\ pcMain' = "spawn"
  /\ walkIdx' = 1
  /\ walkErr' = <<>>
  /\ closed' = FALSE
  /\ wg' = 0
  /\ ret' = NoReturn
  /\ pfCalls' = Append(pfCalls, folderPaths[idx])
  /\ pcRun' = "call"
  /\ UNCHANGED <<opts, exclude, numWorkers, pc, cur, tmpN, tmpL, vfCalls, opened,
                 skipped, entry, nCalls, folderPaths, pathsErr, idx, results, runErr,
                 printed, exitCode>>

\* ProcessFolder has returned: the error ends runChecker, the Report is kept.
LoopStep ==
  /\ pcRun = "call"
  /\ pcMain = "returned"
  /\ IF AfterProcessFolder(ret.Err) = "return"
     THEN /\ runErr' = ret.Err
          /\ pcRun' = "returned"
          /\ UNCHANGED <<results, idx>>
     ELSE /\ results' = StoreResult(results, idx, ret.Result)
          /\ idx' = idx + 1
          /\ pcRun' = "loop"
          /\ UNCHANGED runErr
  /\ UNCHANGED <<fs, opts, exclude, numWorkers, pcMain, walkIdx, walkErr, closed, wg,
                 result, ret, pc, cur, tmpN, tmpL, vfCalls, opened, skipped, entry,
                 nCalls, folderPaths, pathsErr, printed, exitCode, pfCalls>>

\* ui.PrintResult(results, jsonOutput, cmd.OutOrStdout()); return nil
PrintResult ==
  /\ pcRun = "loop"
  /\ idx > Len(folderPaths)
  /\ printed' = <<results>>
  /\ runErr' = <<>>
  /\ pcRun' = "returned"
  /\ UNCHANGED <<fs, opts, exclude, numWorkers, pcMain, walkIdx, walkErr, closed, wg,
                 result, ret, pc, cur, tmpN, tmpL, vfCalls, opened, skipped, entry,
                 nCalls, folderPaths, pathsErr, idx, results, exitCode, pfCalls>>

\* rootCmd.Execute() returns and main returns.
MainReturn ==
  /\ pcRun = "returned"
  /\ exitCode' = <<ExitStatus(runErr)>>
  /\ pcRun' = "exited"
  /\ UNCHANGED <<fs, opts, exclude, numWorkers, pcMain, walkIdx, walkErr, closed, wg,
                 result, ret, pc, cur, tmpN, tmpL, vfCalls, opened, skipped, entry,
                 nCalls, folderPaths, pathsErr, idx, results, runErr, printed, pfCalls>>

NextRC ==
  \/ GetFolderPathsError
  \/ Prepare
  \/ CallProcessFolder
  \/ LoopStep
  \/ PrintResult
  \/ MainReturn
  \/ Spawn
  \/ WalkError
  \/ WalkSend
  \/ WalkContinue
  \/ WalkDone
  \/ \E w \in Workers : Receive(w)
  \/ \E w \in Workers : Validate(w)
  \/ Close
  \/ \E w \in Workers : WorkerExit(w)
  \/ WaitReturn

SpecRC == InitRC /\ [][NextRC]_vars

\* ============================================================ the claims
\* What the claims speak of, in their own words.

\* A base name of 64 lowercase-hex characters.
IsDigestName(name) ==
  Len(name) = HashLen /\ \A i \in 1..Len(name) : name[i] \in HexDigits

\* A file that is there, opens and reads to its end.
Readable(path) == \E i \in Lookup(path) : ~fs[i].openErr /\ ~fs[i].readErr

\* The entries the walk submits when it meets no error.
NonDirs == {i \in 1..Len(fs) : fs[i].kind # "dir"}

\* What the specification makes of an entry under a compiled filter.
EntryOutcome(re, e) ==
  IF MatchString(re, e.path) THEN "Excluded"
  ELSE IF ~IsDigestName(Base(e.path)) THEN "InvalidName"
  ELSE IF e.openErr \/ e.readErr THEN "FileIOError"
  ELSE IF Sha256Hex(e.content) = Base(e.path) THEN "Intact"
  ELSE "Corrupted"

Outcomes == {"Excluded", "InvalidName", "FileIOError", "Intact", "Corrupted"}

\* The same, tabulated once for every entry of a tree and every choice of the
\* options: neither changes while ProcessFolder runs.
OutcomeTable ==
  { <<o, e, EntryOutcome(collectExcludePatterns(o), e)>> :
      o \in OptsChoices,
      e \in {Catalog[i] : i \in 1..Len(Catalog)} \cup {RootEntry(TRUE), RootEntry(FALSE)} }

\* What the specification makes of entry i of the tree.
Outcome(i) == CHOOSE k \in Outcomes : <<opts, fs[i], k>> \in OutcomeTable

Count(outcomes) == Cardinality({i \in NonDirs : Outcome(i) \in outcomes})

\* ProcessFolder has returned a Report.
ReturnedReport == pcMain = "returned" /\ ret.Result # <<>>

\* A worker has loaded a field of the Report and not yet stored it back.
InsideUpdate ==
  {"total_store", "invalid_store", "invalid_list_store", "intact_store",
   "corrupted_store", "corrupted_list_store"}

\* The options give no explicit pattern and no template fragment.
NoPatterns == opts.Exclude = <<>> /\ TemplatePatterns(opts.Template) = <<>>

\* C1: in every Report ProcessFolder returns, intact_files + corrupted_files
\* + invalid_files equals total_files (a file whose open or read failed being
\* in none of the four counters).
C1_CountersPartitionTotal ==
  ReturnedReport =>
    LET r == ret.Result[1]
    IN r.IntactFiles + r.CorruptedFiles + r.InvalidFiles = r.TotalFiles

\* C2: the updates of one Report are serialized: never are two workers at
\* once between the load and the store of a counter or a list of the Report.
C2_UpdatesSerialized ==
  Cardinality({w \in Workers : pc[w] \in InsideUpdate}) <= 1

\* C3: the counts of the returned Report are a function of the tree, the
\* file contents and the filter alone: whatever the worker count and the
\* schedule, they are the counts of the files of each outcome.
C3_CountsDeterministic ==
  ReturnedReport =>
    LET r == ret.Result[1]
    IN /\ r.TotalFiles = Count({"InvalidName", "FileIOError", "Intact", "Corrupted"})
       /\ r.IntactFiles = Count({"Intact"})
       /\ r.CorruptedFiles = Count({"Corrupted"})
       /\ r.InvalidFiles = Count({"InvalidName"})

\* C3, one worker: the counts every run must agree with.
C3_OneWorkerCounts == numWorkers = 1 => C3_CountsDeterministic

\* C7: with no explicit pattern and no template fragment the filter matches
\* no path, and every non-directory entry of the tree is evaluated.
C7_NoPatternsExcludeNothing ==
  (NoPatterns /\ ReturnedReport) =>
    \A i \in NonDirs :
      /\ Outcome(i) # "Excluded"
      /\ CopiesIn(fs[i].path, vfCalls) = 1

\* C10: with a worker count <= 0 ProcessFolder has a worker all the same
\* (the count was clamped) or never starts the walk (it was rejected): the
\* walk function is never blocked on fileChan with no worker to receive.
C10_NonPositiveWorkersRejected ==
  numWorkers <= 0 => ~(pcMain = "send" /\ \A w \in Workers : pc[w] = "idle")

\* The direct call of ValidateFile has returned to its caller.
JustReturned == pcMain = "test" /\ pc[Caller] = "idle" /\ nCalls > 0

\* C4: for a readable file with a 64-lowercase-hex base name, ValidateFile
\* adds one to total_files and to intact_files and changes nothing else when
\* the digest of the content is the base name; otherwise it adds one to
\* total_files and to corrupted_files and appends one entry, with the path and
\* the digest of the content.
C4_DigestDecides ==
  (JustReturned /\ IsDigestName(Base(cur[Caller])) /\ Readable(cur[Caller])) =>
    LET filePath == cur[Caller]
        digest == Sha256Hex(ReadAll(filePath))
    IN IF digest = Base(filePath)
       THEN result = [entry EXCEPT !.TotalFiles = @ + 1, !.IntactFiles = @ + 1]
       ELSE result = [entry EXCEPT
                        !.TotalFiles = @ + 1,
                        !.CorruptedFiles = @ + 1,
                        !.CorruptedFileList =
                           Append(@, [FilePath |-> filePath, ActualHash |-> digest])]

\* C4, reached: an intact file, then a file named as the digest of the empty
\* input that holds "x", reported with the digest of "x".
C4_Witness ==
  /\ JustReturned
  /\ cur[Caller] = Under(OtherDir, DigestEmpty)
  /\ result.IntactFiles = 1
  /\ result.CorruptedFiles = 1
  /\ result.CorruptedFileList[1].ActualHash = DigestX

Matched == {i \in 1..Len(fs) : Outcome(i) = "Excluded"}

InInvalidList(path) ==
  \E k \in 1..Len(result.InvalidFileList) : result.InvalidFileList[k] = path

InCorruptedList(path) ==
  \E k \in 1..Len(result.CorruptedFileList) : result.CorruptedFileList[k].FilePath = path

\* C6: a file whose path the filter matches is never handed to ValidateFile,
\* is in neither list, and adds to no counter: each counter is at most the
\* number of received files the filter does not match.
C6_ExcludedNeverValidated ==
  LET matched == Matched
      received == {i \in NonDirs : i < walkIdx /\ i \notin matched}
  IN /\ \A i \in matched :
          /\ CopiesIn(fs[i].path, vfCalls) = 0
          /\ ~InInvalidList(fs[i].path)
          /\ ~InCorruptedList(fs[i].path)
          /\ \A w \in Workers :
               pc[w] \notin {"idle", "range", "done"} => cur[w] # fs[i].path
     /\ result.TotalFiles <= Cardinality(received)
     /\ result.IntactFiles + result.CorruptedFiles + result.InvalidFiles
          <= Cardinality(received)

\* C6, reached: two workers, a Report returned after one file was skipped
\* and another counted.
C6_Witness ==
  /\ ReturnedReport
  /\ numWorkers = 2
  /\ BagCardinality(skipped) >= 1
  /\ ret.Result[1].TotalFiles >= 1

\* C8: a validly-named file that cannot be opened or read is in neither list
\* and is opened at most once; when the walk meets no error ProcessFolder
\* returns the Report and no error, every file the filter does not match has
\* been through ValidateFile once, and the failing file is in none of
\* intact_files, corrupted_files, invalid_files.
C8_FileErrorContained ==
  /\ \A i \in NonDirs :
       Outcome(i) = "FileIOError" =>
         /\ ~InInvalidList(fs[i].path)
         /\ ~InCorruptedList(fs[i].path)
         /\ CopiesIn(fs[i].path, opened) <= 1
         /\ CopiesIn(fs[i].path, vfCalls) <= 1
  /\ (pcMain = "returned" /\ walkErr = <<>>) =>
       /\ ret = [Result |-> <<result>>, Err |-> <<>>]
       /\ \A j \in NonDirs :
            Outcome(j) # "Excluded" => CopiesIn(fs[j].path, vfCalls) = 1
       /\ result.IntactFiles <= Count({"Intact"})
       /\ result.CorruptedFiles <= Count({"Corrupted"})
       /\ result.InvalidFiles <= Count({"InvalidName"})

\* C8, reached: two workers, a Report returned after the open of one file
\* failed, with another file counted intact.
C8_Witness ==
  /\ ReturnedReport
  /\ numWorkers = 2
  /\ \E i \in NonDirs :
       /\ Outcome(i) = "FileIOError"
       /\ OpenFails(fs[i].path)
       /\ CopiesIn(fs[i].path, opened) = 1
  /\ ret.Result[1].IntactFiles = 1

\* The entries at which the walk reports an error, and the first of them.
WalkErrors == {i \in 1..Len(fs) : fs[i].walkErr}
FirstError == CHOOSE i \in WalkErrors : \A j \in WalkErrors : i <= j

\* C9: when the walk reports an error at an entry it never goes past that
\* entry, no later entry reaches a worker, and ProcessFolder returns that
\* error and a nil Report.
C9_WalkErrorFailsFast ==
  WalkErrors # {} =>
    /\ walkIdx <= FirstError
    /\ \A j \in FirstError..Len(fs) :
         CopiesIn(fs[j].path, vfCalls) = 0 /\ CopiesIn(fs[j].path, skipped) = 0
    /\ pcMain = "returned" => ret = [Result |-> <<>>, Err |-> <<FirstError>>]

\* C9, reached: the error is returned after a file was counted, with an
\* entry left that the walk never met.
C9_Witness ==
  /\ pcMain = "returned"
  /\ ret.Err # <<>>
  /\ ret.Result = <<>>
  /\ result.TotalFiles >= 1
  /\ FirstError < Len(fs)

\* runChecker has come out of its loop over the roots.
LoopOver == pcRun \in {"returned", "exited"} /\ ~pathsErr

\* C11: runChecker calls ProcessFolder once per root, in the order of the
\* root list; the Reports it has stored are those of the roots gone through,
\* each at the index of its root with that root as folder_path; and what it
\* outputs has one Report per root, the i-th being the Report of the i-th root.
C11_OneReportPerRootInOrder ==
  /\ pfCalls = SubSeq(folderPaths, 1, Len(pfCalls))
  /\ pcRun = "call" => Len(pfCalls) = idx
  /\ pcRun = "loop" =>
       /\ Len(pfCalls) = idx - 1
       /\ \A i \in 1..Len(folderPaths) :
            IF i < idx
            THEN results[i] # <<>> /\ results[i][1].FolderPath = folderPaths[i]
            ELSE results[i] = <<>>
  /\ printed # <<>> =>
       /\ pfCalls = folderPaths
       /\ Len(printed[1]) = Len(folderPaths)
       /\ \A i \in 1..Len(folderPaths) :
            printed[1][i] # <<>> /\ printed[1][i][1].FolderPath = folderPaths[i]

\* C11, reached: two roots gone through and output.
C11_Witness ==
  /\ pcRun = "exited"
  /\ folderPaths = <<OtherRoot, GoodRoot>>
  /\ numWorkers = 2
  /\ printed # <<>>
  /\ printed[1][2][1].TotalFiles >= 1

\* C12: once ProcessFolder has returned an error for a root, runChecker
\* calls it for no later root, returns that error, and outputs no Report:
\* PrintResult is not called, the Reports of the earlier roots are dropped.
C12_StopsAtFirstError ==
  (pcRun # "start" /\ pcMain = "returned" /\ ret.Err # <<>>) =>
    /\ pcRun \in {"call", "returned", "exited"}
    /\ pfCalls = SubSeq(folderPaths, 1, idx)
    /\ printed = <<>>
    /\ pcRun # "call" => runErr = ret.Err

\* C12, reached: the second of three roots failed after the first gave its
\* Report, and the third was never tried.
C12_Witness ==
  /\ pcRun = "exited"
  /\ folderPaths = <<GoodRoot, BrokenRoot, OtherRoot>>
  /\ pfCalls = <<GoodRoot, BrokenRoot>>
  /\ runErr # <<>>
  /\ results[1] # <<>>
  /\ results[1][1].TotalFiles >= 1
  /\ printed = <<>>

\* C13: the process ends with status 0 only when every root was walked and
\* gave a Report: after an error of ProcessFolder (or of getFolderPaths) the
\* status is not 0.
C13_SuccessOnlyWhenAllWalked ==
  exitCode = <<0>> =>
    /\ runErr = <<>>
    /\ printed # <<>>
    /\ \A i \in 1..Len(folderPaths) : printed[1][i] # <<>>

\* A worker that is neither not started nor gone.
Live == {w \in Workers : pc[w] \notin {"idle", "done"}}

\* The paths the walk has sent and a worker has received.
Received == {i \in NonDirs : i < walkIdx}

\* C14: when ProcessFolder has returned, every worker it started has exited
\* (none is running, none is blocked on fileChan), and the Report it returned
\* is the Result as it is ever after: nothing writes to it after the return.
C14_ReturnAfterWorkersExit ==
  pcMain = "returned" =>
    /\ Live = {}
    /\ \A w \in Workers : w <= numWorkers => pc[w] = "done"
    /\ wg = 0
    /\ ret.Result # <<>> => ret.Result[1] = result

\* C14, reached: two workers have counted three files between them and
\* exited, and the Report is returned.
C14_Witness ==
  /\ ReturnedReport
  /\ numWorkers = 2
  /\ pc[1] = "done" /\ pc[2] = "done"
  /\ ret.Result[1].TotalFiles = 3

\* C15: fileChan is closed only after filepath.Walk has returned (at the end
\* of the tree or at an error), with every path sent so far received; and when
\* ProcessFolder returns every path that was sent has been handled to the end
\* by a worker, as excluded or through ValidateFile, and every worker has left
\* its loop.
C15_CloseAfterWalkAndDrain ==
  /\ closed =>
       /\ pcMain \in {"wait", "returned"}
       /\ walkIdx > Len(fs) \/ walkErr # <<>>
       /\ \A i \in Received :
            CopiesIn(fs[i].path, vfCalls) + CopiesIn(fs[i].path, skipped) = 1
  /\ pcMain = "returned" =>
       /\ closed
       /\ \A i \in Received :
            /\ CopiesIn(fs[i].path, vfCalls) + CopiesIn(fs[i].path, skipped) = 1
            /\ \A w \in Workers : cur[w] # fs[i].path
       /\ \A w \in Workers : w <= numWorkers => pc[w] = "done"

\* C15, reached: the channel is closed while a worker is still inside
\* ValidateFile with the last path, the other worker having skipped one.
C15_Witness ==
  /\ closed
  /\ pcMain = "wait"
  /\ numWorkers = 2
  /\ BagCardinality(skipped) >= 1
  /\ \E w \in Workers : pc[w] = "total_store" /\ cur[w] = fs[Len(fs)].path

\* C16: the walk sends no directory and nothing but regular files: a symbolic
\* link (or a device, a socket, a pipe) reaches no worker and is not counted.
C16_OnlyRegularFilesSent ==
  \A i \in 1..Len(fs) :
    ( \/ pcMain = "send" /\ walkIdx = i
      \/ CopiesIn(fs[i].path, vfCalls) > 0
      \/ CopiesIn(fs[i].path, skipped) > 0 ) => fs[i].kind = "file"

\* C16, the half that holds: no directory is sent.
C16_NoDirectorySent ==
  \A i \in 1..Len(fs) :
    ( \/ pcMain = "send" /\ walkIdx = i
      \/ CopiesIn(fs[i].path, vfCalls) > 0
      \/ CopiesIn(fs[i].path, skipped) > 0 ) => fs[i].kind # "dir"

\* C17: a path the walk has sent is received by one worker and no more, and
\* goes through ValidateFile once when the filter does not match it and never
\* when it does; a path not yet sent is with no worker.
C17_ConsumedExactlyOnce ==
  \A i \in NonDirs :
    /\ CopiesIn(fs[i].path, vfCalls) + CopiesIn(fs[i].path, skipped)
         = IF i \in Received THEN 1 ELSE 0
    /\ CopiesIn(fs[i].path, vfCalls)
         = IF i \in Received /\ Outcome(i) # "Excluded" THEN 1 ELSE 0
    /\ Cardinality({w \in Live : cur[w] = fs[i].path}) <= 1

\* C17, reached: two workers are inside ValidateFile at once, each with a
\* path of its own, a third path having been skipped.
C17_Witness ==
  /\ numWorkers = 2
  /\ pc[1] \notin {"idle", "range", "done"}
  /\ pc[2] \notin {"idle", "range", "done"}
  /\ cur[1] # cur[2]
  /\ BagCardinality(skipped) = 1

\* C18: with a worker count of one or more ProcessFolder returns in the end,
\* whatever the tree and whatever fails in it, and by then every worker has
\* exited.
C18_EventuallyReturns ==
  numWorkers >= 1 =>
    <>(pcMain = "returned" /\ \A w \in Workers : w <= numWorkers => pc[w] = "done")

\* C18, reached: ProcessFolder has returned the error of the walk with two
\* workers, after one file went through ValidateFile and one was skipped.
C18_Witness ==
  /\ pcMain = "returned"
  /\ numWorkers = 2
  /\ ret.Err # <<>>
  /\ BagCardinality(vfCalls) = 1
  /\ BagCardinality(skipped) = 1
  /\ \A w \in Workers : pc[w] = "done"

\* C19: the roots are gone through one at a time.  A worker is live only
\* inside the one call of ProcessFolder that is in progress, which is the
\* call for the root runChecker is at: when that call starts and when it has
\* returned no worker is live.  So never more than numWorkers workers are
\* live, and those that are hold paths of that root and write to its Report.
C19_OneRootAtATime ==
  /\ Cardinality(Live) <= (IF numWorkers > 0 THEN numWorkers ELSE 0)
  /\ Live # {} =>
       /\ pcRun = "call"
       /\ pcMain \in {"walk", "send", "close", "wait"}
       /\ result.FolderPath = folderPaths[idx]
       /\ \A w \in Live :
            pc[w] # "range" =>
              \E i \in 1..Len(TreeOf(folderPaths[idx])) :
                 TreeOf(folderPaths[idx])[i].path = cur[w]
  /\ pcRun # "call" => Live = {}

\* C19, reached: the call for the second root is in progress with both
\* workers inside ValidateFile, the Report of the first root being stored.
C19_Witness ==
  /\ pcRun = "call"
  /\ idx = 2
  /\ results[1] # <<>>
  /\ results[1][1].FolderPath = OtherRoot
  /\ Cardinality({w \in Live : pc[w] # "range"}) = 2

\* The paths of a list, and a list that holds no path twice.
NoPathTwice(paths) ==
  \A j, k \in 1..Len(paths) : j # k => paths[j] # paths[k]

\* C20: in every Report returned, corrupted_file_list is as long as
\* corrupted_files says and invalid_file_list as long as invalid_files says,
\* and no path is twice in a list.
C20_ListsMatchCounters ==
  ReturnedReport =>
    LET r == ret.Result[1]
    IN /\ Len(r.CorruptedFileList) = r.CorruptedFiles
       /\ Len(r.InvalidFileList) = r.InvalidFiles
       /\ NoPathTwice([k \in 1..Len(r.CorruptedFileList) |-> r.CorruptedFileList[k].FilePath])
       /\ NoPathTwice(r.InvalidFileList)

\* C20, one worker: the lists and the counters agree.
C20_OneWorkerLists == numWorkers = 1 => C20_ListsMatchCounters

\* The fragments the options give: the explicit patterns, then the templates'.
Fragments == opts.Exclude \o TemplatePatterns(opts.Template)

\* The fragment, as a pattern of its own, matches a substring of s.
FragmentMatches(fragment, s) == \E at \in 0..Len(s) : BranchMatchesAt(fragment, s, at)

\* The paths some fragment of some choice of the options matches in full.
FragmentTable ==
  { t \in OptsChoices \X ({Catalog[i].path : i \in 1..Len(Catalog)} \cup {Root}) :
      LET fragments == t[1].Exclude \o TemplatePatterns(t[1].Template)
      IN \E k \in 1..Len(fragments) : FragmentMatches(fragments[k], t[2]) }

SomeFragmentMatches(path) == <<opts, path>> \in FragmentTable

\* The paths the workers have taken from the queue and decided on.
Decided == BagToSet(vfCalls) \cup BagToSet(skipped)

\* C21: a file is excluded exactly when some fragment matches a substring of
\* its full path, root prefix and directories included; and when a fragment
\* matches the root path, the returned Report has total_files = 0.
C21_ExcludedIffFragmentMatches ==
  /\ \A path \in Decided :
       BagIn(path, skipped) <=> SomeFragmentMatches(path)
  /\ (ReturnedReport /\ SomeFragmentMatches(fs[1].path)) =>
       ret.Result[1].TotalFiles = 0 /\ vfCalls = EmptyBag

\* C21, when the options give a fragment: the claim as it stands.
C21_WithFragments == Fragments # <<>> => C21_ExcludedIffFragmentMatches

\* C21, reached: a fragment that matches the root's name, a Report returned
\* with every file of the tree skipped.
C21_RootMatched ==
  /\ ReturnedReport
  /\ opts.Exclude = <<Root>>
  /\ BagCardinality(skipped) >= 2

\* C21, reached: a fragment that matches across the separator and the first
\* characters of the name has a file skipped that its base name alone would
\* not have.
C21_FullPathMatched ==
  /\ ReturnedReport
  /\ opts.Exclude = <<Str_2x7>>
  /\ BagIn(Under(Root, DigestX), skipped)
  /\ ~FragmentMatches(Str_2x7, DigestX)
  /\ BagCardinality(vfCalls) >= 1

\* The options without the last template name.
WithoutLastTemplate(o) ==
  [o EXCEPT !.Template = SubSeq(o.Template, 1, Len(o.Template) - 1)]

\* The options end with a template name that is no key of Templates.
EndsWithUnknownTemplate(o) ==
  o.Template # <<>> /\ o.Template[Len(o.Template)] \notin TemplateKeys

\* The paths the filter built without the last template name matches.
InertTable ==
  { t \in {o \in OptsChoices : EndsWithUnknownTemplate(o)}
          \X ({Catalog[i].path : i \in 1..Len(Catalog)} \cup {Root}) :
      MatchString(collectExcludePatterns(WithoutLastTemplate(t[1])), t[2]) }

\* C22: an unknown template name is inert: the filter built from patterns P,
\* known templates T and an unknown name u after them is the filter built
\* from P and T, and the workers exclude exactly the paths that one matches.
C22_UnknownTemplateInert ==
  EndsWithUnknownTemplate(opts) =>
    /\ exclude = collectExcludePatterns(WithoutLastTemplate(opts))
    /\ \A path \in Decided : BagIn(path, skipped) <=> <<opts, path>> \in InertTable

\* C22, reached: "restic" and an unknown name after it, a Report returned
\* with the repository's config skipped and another file validated.
C22_Witness ==
  /\ ReturnedReport
  /\ opts.Template = <<"restic", Str_linux>>
  /\ BagIn(Under(Root, Str_config), skipped)
  /\ BagCardinality(vfCalls) >= 1

\* A step of a worker goroutine.
WorkerStep == \E w \in Workers : Receive(w) \/ Validate(w) \/ WorkerExit(w)

\* The producer is past close(fileChan).
PastClose == pcMain \in {"wait", "returned"}

\* C23: fileChan is closed exactly once, by the producer at its close
\* statement, whether the walk ended or failed: it is closed from that
\* statement on and not before, no close follows a close, the producer is
\* never again at a send or at the close once the channel is closed, and no
\* step of a worker closes the channel or puts a path on it.
C23_ClosedOnceNoSendAfter ==
  /\ [](closed <=> PastClose)
  /\ [][ /\ closed' # closed => ~closed /\ pcMain = "close" /\ ~WorkerStep
         /\ closed => closed' /\ pcMain' \in {"wait", "returned"}
         /\ WorkerStep => closed' = closed /\ (pcMain' = "send" => pcMain = "send") ]_vars

\* C23, reached: the walk failed after a file was validated by one of two
\* workers, the channel is closed and the error returned.
C23_Witness ==
  /\ pcMain = "returned"
  /\ closed
  /\ ret.Err # <<>>
  /\ numWorkers = 2
  /\ BagCardinality(vfCalls) >= 1

\* C23, reached on the other path: the walk met every entry, the channel is
\* closed and the Report of three files returned.
C23_SuccessPath ==
  /\ ReturnedReport
  /\ closed
  /\ BagCardinality(vfCalls) + BagCardinality(skipped) = 3

\* ProcessFolder has returned the error of the walk.
ReturnedError == pcMain = "returned" /\ ret.Err # <<>>

\* C24: when the walk fails, the error is returned only after fileChan is
\* closed and every worker has left its loop: from the error return on no
\* worker runs or waits on the channel, and the call that failed is the last
\* call of ProcessFolder, so no validation of another root goes on beside
\* workers of the failed one.
C24_ErrorReturnAfterWorkersExit ==
  /\ ReturnedError =>
       /\ closed
       /\ wg = 0
       /\ Live = {}
       /\ \A w \in Workers : w <= numWorkers => pc[w] = "done"
       /\ pfCalls[Len(pfCalls)] = result.FolderPath
       /\ pcRun \in {"idle", "call", "returned", "exited"}
  /\ runErr # <<>> => Live = {}

\* C24, reached: the second root failed at a directory after one of two
\* workers had validated a file of it; the process has ended, the workers
\* gone.
C24_Witness ==
  /\ ReturnedError
  /\ pcRun = "exited"
  /\ numWorkers = 2
  /\ pfCalls = <<OtherRoot, BrokenRoot>>
  /\ BagIn(Under(BrokenRoot, Rep("a", HashLen)), vfCalls)
  /\ runErr = ret.Err

\* The place of a path in the walk of the tree.
WalkIndex(path) == CHOOSE i \in 1..Len(fs) : fs[i].path = path

\* The paths are in the order the walk met them.
InWalkOrder(paths) ==
  \A j, k \in 1..Len(paths) : j < k => WalkIndex(paths[j]) < WalkIndex(paths[k])

CorruptedPaths(r) == [k \in 1..Len(r.CorruptedFileList) |-> r.CorruptedFileList[k].FilePath]

C26_ListEntriesValid ==
  /\ \A k \in 1..Len(result.CorruptedFileList) :
       LET c == result.CorruptedFileList[k]
       IN /\ IsDigestName(Base(c.FilePath))
          /\ c.ActualHash # Base(c.FilePath)
          /\ ~InInvalidList(c.FilePath)
  /\ \A k \in 1..Len(result.InvalidFileList) :
       ~IsDigestName(Base(result.InvalidFileList[k]))

\* C26, one worker: the entries are as the claim says.
C26_OneWorkerEntries == numWorkers = 1 => C26_ListEntriesValid

\* C26, reached with one worker: a Report with two corrupted files and a
\* Report with an invalid name are output.
C26_OneWorkerReached ==
  /\ numWorkers = 1
  /\ pcRun = "exited"
  /\ printed # <<>>
  /\ pfCalls = <<GoodRoot, OtherRoot>>
  /\ Len(printed[1][1][1].CorruptedFileList) = 2
  /\ Len(printed[1][2][1].InvalidFileList) = 1
====
